---- MODULE Spec2Model ----
(***************************************************************************)
(* A model of two query generators of bigquery_etl.glam:                   *)
(*   probe_counts                        (render_query, main)              *)
(*   clients_daily_histogram_aggregates  (get_distribution_metrics,        *)
(*                                        get_metrics_sql, main)           *)
(* Positions in sequences are 1-based here and 0-based in the source.      *)
(***************************************************************************)
EXTENDS Integers, Sequences, FiniteSets, TLC

\* Longest attribute list handed directly to render_query.
MaxAttrs == 4

VARIABLES
    prog,                    \* which module runs
    entry,                   \* the function the run entered through
    pc,                      \* position in the run
    args,                    \* parsed command line
    attributes,              \* render_query's parameter
    size_pos,                \* position of the outer loop in SubsetSizes
    comb_pos,                \* position of the inner loop in Combinations
    attribute_combinations,  \* render_query's local list
    emitted,                 \* per append: the loop variables it happened under
    rendered,                \* render_query's / render_main's return value
    schema,                  \* get_schema's result
    distributions,           \* the metric catalog, a dict in insertion order
    metrics_sql,             \* get_metrics_sql(...).strip()
    calls,                   \* calls made to render_query / render_main
    stdout,                  \* what was printed
    raised,                  \* the exception that ended the run, or "none"
    exit_code                \* the process's exit status, -1 while running

vars == <<prog, entry, pc, args, attributes, size_pos, comb_pos,
          attribute_combinations, emitted, rendered, schema, distributions,
          metrics_sql, calls, stdout, raised, exit_code>>

\* What only clients_daily_histogram_aggregates touches / only probe_counts.
histogram_vars == <<schema, distributions, metrics_sql>>
probe_counts_vars == <<args, attributes, size_pos, comb_pos,
                       attribute_combinations, emitted>>

Range(s) == {s[i] : i \in DOMAIN s}

Distinct(s) == \A i, j \in DOMAIN s : i # j => s[i] # s[j]

\* reversed(seq)
Reversed(s) == [i \in 1..Len(s) |-> s[Len(s) + 1 - i]]

(***************************************************************************)
(* probe_counts.render_query                                               *)
(***************************************************************************)

\* range(max_combinations + 1): 0, 1, ..., n  (the mutant of SubsetSizes)
SubsetSizesAscending(n) == [i \in 1..(n + 1) |-> i - 1]

\* reversed(range(max_combinations + 1)): n, n-1, ..., 0
SubsetSizes(n) == Reversed([i \in 1..(n + 1) |-> i - 1])

\* itertools.combinations: the first index tuple, range(r)
FirstIndices(r) == [k \in 1..r |-> k]

\* itertools.combinations: the positions that can still be advanced,
\* indices[i] != i + n - r
Advanceable(indices, n, r) == {i \in 1..r : indices[i] # i + n - r}

\* itertools.combinations: advance the rightmost advanceable position and
\* reset everything to its right
NextIndices(indices, n, r) ==
    LET i == CHOOSE m \in Advanceable(indices, n, r) :
                 \A k \in Advanceable(indices, n, r) : k <= m
    IN  [j \in 1..r |-> IF j < i THEN indices[j] ELSE indices[i] + 1 + (j - i)]

RECURSIVE CombinationsFrom(_, _, _)
CombinationsFrom(indices, n, r) ==
    IF Advanceable(indices, n, r) = {}
    THEN <<indices>>
    ELSE <<indices>> \o CombinationsFrom(NextIndices(indices, n, r), n, r)

\* The mutant of Combinations: the same tuples, generated back to front.
CombinationsBackwards(n, r) ==
    IF r > n THEN <<>> ELSE Reversed(CombinationsFrom(FirstIndices(r), n, r))

\* combinations(attributes, subset_size), as tuples of positions in attributes
Combinations(n, r) ==
    IF r > n THEN <<>> ELSE CombinationsFrom(FirstIndices(r), n, r)

\* The tuple of attributes combinations() yields for an index tuple.
Grouping(attrs, indices) == [k \in DOMAIN indices |-> attrs[indices[k]]]

\* The mutant of Skipped: `and` written for `or`.
SkippedAnd(grouping) ==
    "channel" \notin Range(grouping) /\ "app_version" \notin Range(grouping)

\* if "channel" not in grouping or "app_version" not in grouping: continue
Skipped(grouping) ==
    "channel" \notin Range(grouping) \/ "app_version" \notin Range(grouping)

\* The mutant of SelectExpr: only the included attributes are listed.
SelectExprIncludedOnly(attrs, grouping) ==
    [p \in DOMAIN grouping |-> <<grouping[p], TRUE>>]

\* select_expr: (attribute, attribute in grouping) for every attribute
SelectExpr(attrs, grouping) ==
    [p \in DOMAIN attrs |-> <<attrs[p], attrs[p] \in Range(grouping)>>]

telemetry_variables ==
    [attributes |-> <<"os", "app_version", "app_build_id", "channel">>]

glean_variables ==
    [attributes |-> <<"ping_type", "os", "app_version", "app_build_id", "channel">>]

\* Attribute names render_query is called with directly.
AttributeNames == {"os", "app_version", "app_build_id", "channel"}

AttributeLists == UNION {[1..n -> AttributeNames] : n \in 0..MaxAttrs}

\* The mutant of Unsupported: the test names the other ping type.
UnsupportedGlean(a) == a.ping_type = "glean" /\ a.histogram

\* if args.ping_type == "telemetry" and args.histogram: raise ValueError
Unsupported(a) == a.ping_type = "telemetry" /\ a.histogram

NoArgs == [ping_type |-> "none", histogram |-> FALSE]

InitProbeCounts ==
    /\ prog = "probe_counts"
    /\ \/ /\ entry = "main"
          /\ pc = "main"
          /\ args \in [ping_type : {"glean", "telemetry"}, histogram : BOOLEAN]
          /\ attributes = <<>>
          /\ calls = <<>>
       \/ /\ entry = "render_query"
          /\ pc = "render_query"
          /\ args = NoArgs
          /\ attributes \in AttributeLists
          /\ calls = <<[fn |-> "render_query", arg |-> attributes]>>
    /\ size_pos = 1
    /\ comb_pos = 1
    /\ attribute_combinations = <<>>
    /\ emitted = <<>>
    /\ rendered = <<>>
    /\ schema = <<>>
    /\ distributions = <<>>
    /\ metrics_sql = <<>>
    /\ stdout = <<>>
    /\ raised = "none"
    /\ exit_code = -1

\* main, up to the call of render_query
MainProbeCounts ==
    /\ prog = "probe_counts"
    /\ pc = "main"
    /\ LET variables == IF args.ping_type = "telemetry"
                        THEN telemetry_variables ELSE glean_variables
       IN  IF Unsupported(args)
           THEN /\ raised' = "ValueError"
                /\ exit_code' = 1
                /\ pc' = "exit"
                /\ UNCHANGED <<attributes, calls>>
           ELSE /\ attributes' = variables.attributes
                /\ calls' = Append(calls, [fn |-> "render_query",
                                           arg |-> variables.attributes])
                /\ pc' = "render_query"
                /\ UNCHANGED <<raised, exit_code>>
    /\ UNCHANGED <<prog, entry, args, size_pos, comb_pos,
                   attribute_combinations, emitted, rendered, stdout>>
    /\ UNCHANGED histogram_vars

\* render_query, up to the first iteration
RenderQueryBegin ==
    /\ prog = "probe_counts"
    /\ pc = "render_query"
    /\ attribute_combinations' = <<>>
    /\ emitted' = <<>>
    /\ size_pos' = 1
    /\ comb_pos' = 1
    /\ pc' = "loop"
    /\ UNCHANGED <<prog, entry, args, attributes, rendered, calls, stdout,
                   raised, exit_code>>
    /\ UNCHANGED histogram_vars

\* render_query: one iteration of the inner loop, and the step to the next
RenderQueryLoop ==
    /\ prog = "probe_counts"
    /\ pc = "loop"
    /\ LET n == Len(attributes)
           sizes == SubsetSizes(n)
           subset_size == sizes[size_pos]
           combos == Combinations(n, subset_size)
       IN  /\ IF comb_pos <= Len(combos)
              THEN LET grouping == Grouping(attributes, combos[comb_pos])
                   IN  IF Skipped(grouping)
                       THEN UNCHANGED <<attribute_combinations, emitted>>
                       ELSE /\ attribute_combinations' =
                                   Append(attribute_combinations,
                                          SelectExpr(attributes, grouping))
                            /\ emitted' =
                                   Append(emitted,
                                          [subset_size |-> subset_size,
                                           indices |-> combos[comb_pos]])
              ELSE UNCHANGED <<attribute_combinations, emitted>>
           /\ IF comb_pos < Len(combos)
              THEN /\ comb_pos' = comb_pos + 1
                   /\ UNCHANGED <<size_pos, pc>>
              ELSE IF size_pos < Len(sizes)
                   THEN /\ size_pos' = size_pos + 1
                        /\ comb_pos' = 1
                        /\ UNCHANGED pc
                   ELSE /\ pc' = "render"
                        /\ UNCHANGED <<size_pos, comb_pos>>
    /\ UNCHANGED <<prog, entry, args, attributes, rendered, calls, stdout,
                   raised, exit_code>>
    /\ UNCHANGED histogram_vars

\* render_query: sql.render(attribute_combinations=...), reformat, return
RenderQueryReturn ==
    /\ prog = "probe_counts"
    /\ pc = "render"
    /\ rendered' = <<[template |-> "probe_counts_v1.sql",
                      attribute_combinations |-> attribute_combinations]>>
    /\ pc' = IF entry = "main" THEN "print" ELSE "done"
    /\ UNCHANGED <<prog, entry, args, attributes, size_pos, comb_pos,
                   attribute_combinations, emitted, calls, stdout, raised,
                   exit_code>>
    /\ UNCHANGED histogram_vars

\* main: print(render_query(...))
MainPrint ==
    /\ prog = "probe_counts"
    /\ pc = "print"
    /\ stdout' = stdout \o rendered
    /\ exit_code' = 0
    /\ pc' = "done"
    /\ UNCHANGED <<prog, entry, args, attributes, size_pos, comb_pos,
                   attribute_combinations, emitted, rendered, calls, raised>>
    /\ UNCHANGED histogram_vars

(***************************************************************************)
(* Strings as Python compares them: by code point, a proper prefix first.  *)
(***************************************************************************)

\* The code points of the strings the model sorts.
Chars(s) ==
    CASE s = "a" -> <<97>>
      [] s = "ab" -> <<97, 98>>
      [] s = "sum" -> <<115, 117, 109>>
      [] s = "values" -> <<118, 97, 108, 117, 101, 115>>
      [] s = "metrics" -> <<109, 101, 116, 114, 105, 99, 115>>
      [] s = "counter" -> <<99, 111, 117, 110, 116, 101, 114>>
      [] s = "custom_distribution" ->
             <<99, 117, 115, 116, 111, 109, 95, 100, 105, 115, 116, 114, 105,
               98, 117, 116, 105, 111, 110>>
      [] s = "memory_distribution" ->
             <<109, 101, 109, 111, 114, 121, 95, 100, 105, 115, 116, 114, 105,
               98, 117, 116, 105, 111, 110>>
      [] s = "timing_distribution" ->
             <<116, 105, 109, 105, 110, 103, 95, 100, 105, 115, 116, 114, 105,
               98, 117, 116, 105, 111, 110>>

\* str.__lt__ on code point sequences
CharsLess(a, b) ==
    \E k \in 1..(Len(b)) :
        /\ \A m \in 1..(k - 1) : m <= Len(a) /\ a[m] = b[m]
        /\ \/ k = Len(a) + 1
           \/ k <= Len(a) /\ a[k] < b[k]

\* f"metrics.{metric_type}.{name}" followed by ".sum" or ".values"
Path(metric_type, name, leaf) == <<"metrics", metric_type, name, leaf>>

\* The code points of a path: its segments joined by "."
PathChars(path) ==
    Chars(path[1]) \o <<46>> \o Chars(path[2]) \o <<46>> \o Chars(path[3])
        \o <<46>> \o Chars(path[4])

\* tuple.__lt__ on items (name, metric_type, sum_path, value_path): the
\* first component that differs decides, by str.__lt__
ItemLess(x, y) ==
    IF x[1] # y[1] THEN CharsLess(Chars(x[1]), Chars(y[1]))
    ELSE IF x[2] # y[2] THEN CharsLess(Chars(x[2]), Chars(y[2]))
    ELSE IF x[3] # y[3] THEN CharsLess(PathChars(x[3]), PathChars(y[3]))
    ELSE IF x[4] # y[4] THEN CharsLess(PathChars(x[4]), PathChars(y[4]))
    ELSE FALSE

(***************************************************************************)
(* clients_daily_histogram_aggregates                                      *)
(***************************************************************************)

metric_type_set ==
    {"timing_distribution", "memory_distribution", "custom_distribution"}

\* A dict is a sequence of <<key, value>> pairs in insertion order.
DictKeys(d) == {d[i][1] : i \in DOMAIN d}

\* d[key]
DictGet(d, key) == d[CHOOSE i \in DOMAIN d : d[i][1] = key][2]

\* d[key].append(x)
DictAppend(d, key, x) ==
    [i \in DOMAIN d |-> IF d[i][1] = key THEN <<key, Append(d[i][2], x)>> ELSE d[i]]

\* The orders in which a set of three strings can be iterated.
KeyOrders == {o \in [1..3 -> metric_type_set] : Distinct(o)}

\* The mutant of EmptyMetrics: no key is created up front.
EmptyMetricsLazy(order) == <<>>

\* metrics = {metric_type: [] for metric_type in metric_type_set}
EmptyMetrics(order) == [i \in DOMAIN order |-> <<order[i], <<>>>>]

\* for field in metric_field["fields"]: metrics[metric_type].append(field["name"])
RECURSIVE AppendNames(_, _, _, _)
AppendNames(metrics, metric_type, fields, k) ==
    IF k > Len(fields)
    THEN metrics
    ELSE AppendNames(DictAppend(metrics, metric_type, fields[k].name),
                     metric_type, fields, k + 1)

\* The body of the loop over root_field["fields"]; acc is the exception
\* raised so far ("none" for none) and the dict built so far.
VisitMetricField(acc, metric_field) ==
    IF metric_field.name \notin metric_type_set
    THEN acc
    ELSE IF "fields" \notin DOMAIN metric_field
         THEN [acc EXCEPT !.raised = "KeyError"]
         ELSE [acc EXCEPT !.metrics = AppendNames(acc.metrics, metric_field.name,
                                                  metric_field.fields, 1)]

RECURSIVE ScanMetricFields(_, _, _)
ScanMetricFields(acc, fields, k) ==
    IF acc.raised # "none" \/ k > Len(fields)
    THEN acc
    ELSE ScanMetricFields(VisitMetricField(acc, fields[k]), fields, k + 1)

\* The mutant of VisitRootField: the root field's name is not looked at.
VisitRootFieldAnyName(acc, root_field) ==
    IF "fields" \notin DOMAIN root_field
    THEN [acc EXCEPT !.raised = "KeyError"]
    ELSE ScanMetricFields(acc, root_field.fields, 1)

\* The body of the loop over schema.
VisitRootField(acc, root_field) ==
    IF root_field.name # "metrics"
    THEN acc
    ELSE IF "fields" \notin DOMAIN root_field
         THEN [acc EXCEPT !.raised = "KeyError"]
         ELSE ScanMetricFields(acc, root_field.fields, 1)

RECURSIVE ScanRootFields(_, _, _)
ScanRootFields(acc, fields, k) ==
    IF acc.raised # "none" \/ k > Len(fields)
    THEN acc
    ELSE ScanRootFields(VisitRootField(acc, fields[k]), fields, k + 1)

\* get_distribution_metrics(schema), the set being iterated in `order`
get_distribution_metrics(schema_, order) ==
    ScanRootFields([raised |-> "none", metrics |-> EmptyMetrics(order)],
                   schema_, 1)

\* items, as the two loops of get_metrics_sql append to it
RECURSIVE Items(_, _)
Items(metrics, i) ==
    IF i > Len(metrics)
    THEN <<>>
    ELSE LET metric_type == metrics[i][1]
             metric_names == metrics[i][2]
         IN  [k \in DOMAIN metric_names |->
                 <<metric_names[k], metric_type,
                   Path(metric_type, metric_names[k], "sum"),
                   Path(metric_type, metric_names[k], "values")>>]
             \o Items(metrics, i + 1)

\* One step of the insertion sort sorted() runs on a short list: x goes
\* after every element that is not greater than it.
Insert(sorted, x) ==
    LET p == CHOOSE q \in 0..Len(sorted) :
                 /\ \A m \in 1..q : ~ItemLess(x, sorted[m])
                 /\ q < Len(sorted) => ItemLess(x, sorted[q + 1])
    IN  SubSeq(sorted, 1, p) \o <<x>> \o SubSeq(sorted, p + 1, Len(sorted))

RECURSIVE SortedFrom(_, _, _)
SortedFrom(sorted, items, k) ==
    IF k > Len(items)
    THEN sorted
    ELSE SortedFrom(Insert(sorted, items[k]), items, k + 1)

\* The mutant of Sorted: the items are left in the order they were appended.
SortedNot(items) == items

\* sorted(items)
Sorted(items) == SortedFrom(<<>>, items, 1)

\* f"""("{name}", "{metric_type}", {sum_path}, {value_path})"""
Row(item) ==
    [kind |-> "row", name |-> item[1], metric_type |-> item[2],
     sum_path |-> item[3], value_path |-> item[4]]

Comma == [kind |-> ","]

\* ",".join(results): a string is the sequence of its rows and separators
RECURSIVE Join(_)
Join(results) ==
    IF Len(results) = 0 THEN <<>>
    ELSE IF Len(results) = 1 THEN results
    ELSE <<results[1], Comma>> \o Join(Tail(results))

\* str.strip(): leading and trailing white space goes
RECURSIVE Strip(_)
Strip(str) ==
    IF Len(str) = 0 THEN str
    ELSE IF str[1].kind = " " THEN Strip(Tail(str))
    ELSE IF str[Len(str)].kind = " " THEN Strip(SubSeq(str, 1, Len(str) - 1))
    ELSE str

\* The mutant of IsEmptyString: the test is never true.
IsEmptyStringNever(str) == FALSE

\* not metrics_sql
IsEmptyString(str) == Len(str) = 0

get_metrics_sql(metrics) ==
    LET sorted_items == Sorted(Items(metrics, 1))
    IN  Join([k \in DOMAIN sorted_items |-> Row(sorted_items[k])])

(***************************************************************************)
(* The schemas and catalogs the functions are applied to.                  *)
(***************************************************************************)

\* Most fields (of all levels together) in a schema.
MaxFields == 4

\* Most names under one metric type in a catalog handed to get_metrics_sql.
MaxNames == 2

LeafNames == {"a", "ab"}
\* Names of the fields under a root field: two of the metric types, and one
\* that is none.
MetricFieldNames == {"timing_distribution", "custom_distribution", "counter"}
RootFieldNames == {"metrics", "client_info"}

\* A field without "fields", and the same field with an empty "fields".
Childless(names) ==
    {[name |-> nm] : nm \in names} \cup {[name |-> nm, fields |-> <<>>] : nm \in names}

WithFields(names, children) ==
    {[name |-> nm, fields |-> c] : nm \in names, c \in children}

\* Sequences of fields drawn from fieldsOfSize[1], fieldsOfSize[2], ...
\* that hold `size` fields in all.
RECURSIVE FieldSeqs(_, _)
FieldSeqs(fieldsOfSize, size) ==
    IF size = 0
    THEN {<<>>}
    ELSE UNION {{<<f>> \o rest : f \in fieldsOfSize[k],
                                 rest \in FieldSeqs(fieldsOfSize, size - k)}
                : k \in 1..size}

LeafSeqs(size) == [1..size -> {[name |-> nm] : nm \in LeafNames}]

MetricFieldsOfSize ==
    [size \in 1..MaxFields |->
        IF size = 1 THEN Childless(MetricFieldNames)
        ELSE WithFields(MetricFieldNames, LeafSeqs(size - 1))]

RootFieldsOfSize ==
    [size \in 1..MaxFields |->
        IF size = 1 THEN Childless(RootFieldNames)
        ELSE WithFields(RootFieldNames, FieldSeqs(MetricFieldsOfSize, size - 1))]

Schemas == UNION {FieldSeqs(RootFieldsOfSize, size) : size \in 0..MaxFields}

NameLists == UNION {[1..n -> LeafNames] : n \in 0..MaxNames}

Catalogs ==
    {[i \in 1..3 |-> <<o[i], names[i]>>] : o \in KeyOrders, names \in [1..3 -> NameLists]}

InitHistogramAggregates ==
    /\ prog = "clients_daily_histogram_aggregates"
    /\ \/ /\ entry = "main"
          /\ pc = "main"
          /\ schema \in Schemas
          /\ distributions = <<>>
       \/ /\ entry = "get_metrics_sql"
          /\ pc = "get_metrics_sql"
          /\ schema = <<>>
          /\ distributions \in Catalogs
    /\ args = NoArgs
    /\ attributes = <<>>
    /\ size_pos = 1
    /\ comb_pos = 1
    /\ attribute_combinations = <<>>
    /\ emitted = <<>>
    /\ rendered = <<>>
    /\ metrics_sql = <<>>
    /\ calls = <<>>
    /\ stdout = <<>>
    /\ raised = "none"
    /\ exit_code = -1

\* main: distributions = get_distribution_metrics(get_schema(...))
MainDiscover ==
    /\ prog = "clients_daily_histogram_aggregates"
    /\ pc = "main"
    /\ \E order \in KeyOrders :
           LET result == get_distribution_metrics(schema, order)
           IN  IF result.raised # "none"
               THEN /\ raised' = result.raised
                    /\ exit_code' = 1
                    /\ pc' = "exit"
                    /\ UNCHANGED distributions
               ELSE /\ distributions' = result.metrics
                    /\ pc' = "get_metrics_sql"
                    /\ UNCHANGED <<raised, exit_code>>
    /\ UNCHANGED <<prog, entry, schema, metrics_sql, rendered, calls, stdout>>
    /\ UNCHANGED probe_counts_vars

\* get_metrics_sql(distributions), and main's .strip() of what it returns
GetMetricsSql ==
    /\ prog = "clients_daily_histogram_aggregates"
    /\ pc = "get_metrics_sql"
    /\ IF entry = "main"
       THEN /\ metrics_sql' = Strip(get_metrics_sql(distributions))
            /\ pc' = "branch"
       ELSE /\ metrics_sql' = get_metrics_sql(distributions)
            /\ pc' = "done"
    /\ UNCHANGED <<prog, entry, schema, distributions, rendered, calls, stdout,
                   raised, exit_code>>
    /\ UNCHANGED probe_counts_vars

\* main: if not metrics_sql: print the header and the diagnostic, sys.exit(1)
MainNoProbes ==
    /\ prog = "clients_daily_histogram_aggregates"
    /\ pc = "branch"
    /\ IsEmptyString(metrics_sql)
    /\ stdout' = stdout \o <<"header", "-- Empty query: no probes found!">>
    /\ exit_code' = 1
    /\ pc' = "exit"
    /\ UNCHANGED <<prog, entry, schema, distributions, metrics_sql, rendered,
                   calls, raised>>
    /\ UNCHANGED probe_counts_vars

\* main: print(render_main(..., histograms=metrics_sql))
MainRender ==
    /\ prog = "clients_daily_histogram_aggregates"
    /\ pc = "branch"
    /\ ~IsEmptyString(metrics_sql)
    /\ calls' = Append(calls, [fn |-> "render_main", arg |-> metrics_sql])
    /\ rendered' = <<[template |-> "clients_daily_histogram_aggregates_v1.sql",
                      histograms |-> metrics_sql]>>
    /\ stdout' = stdout \o rendered'
    /\ exit_code' = 0
    /\ pc' = "done"
    /\ UNCHANGED <<prog, entry, schema, distributions, metrics_sql, raised>>
    /\ UNCHANGED probe_counts_vars

Init == InitProbeCounts \/ InitHistogramAggregates

Next ==
    \/ MainProbeCounts
    \/ RenderQueryBegin
    \/ RenderQueryLoop
    \/ RenderQueryReturn
    \/ MainPrint
    \/ MainDiscover
    \/ GetMetricsSql
    \/ MainNoProbes
    \/ MainRender

Spec == Init /\ [][Next]_vars

(***************************************************************************)
(* Properties of render_query and of probe_counts' main                    *)
(***************************************************************************)

\* channel and app_version are required in the GLAM frontend
Required == {"channel", "app_version"}

\* The number of true flags of a combination.
TrueCount(c) == Cardinality({p \in DOMAIN c : c[p][2]})

\* The positions of a combination whose flag is true.
TruePositions(c) == {p \in DOMAIN c : c[p][2]}

\* C1: every combination appended to attribute_combinations, whatever the
\* attribute list, flags every required attribute true, and lists both
\* "channel" and "app_version" as included.
C1_RequiredAlwaysIncluded ==
    \A i \in DOMAIN attribute_combinations :
        LET c == attribute_combinations[i]
        IN  /\ \A p \in DOMAIN c : c[p][1] \in Required => c[p][2]
            /\ \A r \in Required : \E p \in DOMAIN c : c[p] = <<r, TRUE>>

\* render_query has returned a list of several combinations, one of which
\* leaves an attribute out.
C1_Witness ==
    /\ entry = "render_query"
    /\ pc = "done"
    /\ Len(attribute_combinations) >= 2
    /\ \E i \in DOMAIN attribute_combinations :
           TrueCount(attribute_combinations[i]) < Len(attributes)

NonIncreasingTrueCounts ==
    \A i, j \in DOMAIN attribute_combinations :
        i < j => TrueCount(attribute_combinations[i])
                     >= TrueCount(attribute_combinations[j])

\* C2, as claimed: for any attribute list, the number of true flags never
\* grows along attribute_combinations.
C2_NonIncreasingAnyList == NonIncreasingTrueCounts

\* C2, amended: for a list of pairwise distinct attributes, the number of
\* true flags never grows along attribute_combinations.
C2_NonIncreasingDistinct == Distinct(attributes) => NonIncreasingTrueCounts

\* render_query has returned, for distinct attributes, combinations with
\* different numbers of true flags.
C2_Witness ==
    /\ pc = "done"
    /\ Len(attributes) > 0
    /\ Distinct(attributes)
    /\ \E i, j \in DOMAIN attribute_combinations :
           i < j /\ TrueCount(attribute_combinations[i])
                        > TrueCount(attribute_combinations[j])

\* The subsets of the attributes that hold every required attribute.
EligibleSubsets(attrs) == {S \in SUBSET Range(attrs) : Required \subseteq S}

\* The combination of a subset: every attribute, in the list's order, with
\* whether it belongs to the subset.
FlagVector(attrs, S) == [p \in DOMAIN attrs |-> <<attrs[p], attrs[p] \in S>>]

LoopFinished == prog = "probe_counts" /\ pc \in {"render", "print", "done"}

\* C3: for distinct attributes, once the loops are over,
\* attribute_combinations holds exactly the flag vectors of the subsets that
\* contain every required attribute, each once.
C3_ExactlyTheEligibleSubsets ==
    (LoopFinished /\ Distinct(attributes)) =>
        /\ Range(attribute_combinations)
               = {FlagVector(attributes, S) : S \in EligibleSubsets(attributes)}
        /\ Distinct(attribute_combinations)

\* The loops are over for distinct attributes two of which are optional: four
\* combinations, from all attributes down to the required two.
C3_Witness ==
    /\ LoopFinished
    /\ Distinct(attributes)
    /\ Len(attribute_combinations) = 4
    /\ TrueCount(attribute_combinations[1]) = Len(attributes)
    /\ TrueCount(attribute_combinations[4]) = 2

\* Tuples of equal length, compared position by position.
LexLess(a, b) ==
    \E k \in DOMAIN a :
        /\ \A m \in 1..(k - 1) : a[m] = b[m]
        /\ a[k] < b[k]

\* C9: the combinations appended under one subset_size come in increasing
\* lexicographic order of the index tuples of their groupings, each tuple
\* increasing in itself (no re-sorting of members); for distinct attributes the
\* tuple is exactly the positions flagged true; and the combinations of 3 out
\* of 4 come as {0,1,2},{0,1,3},{0,2,3},{1,2,3} (here counted from 1).
C9_LexicographicWithinSize ==
    /\ Len(emitted) = Len(attribute_combinations)
    /\ \A i, j \in DOMAIN emitted :
           (i < j /\ emitted[i].subset_size = emitted[j].subset_size)
               => LexLess(emitted[i].indices, emitted[j].indices)
    /\ \A i \in DOMAIN emitted :
           /\ Len(emitted[i].indices) = emitted[i].subset_size
           /\ \A k, m \in DOMAIN emitted[i].indices :
                  k < m => emitted[i].indices[k] < emitted[i].indices[m]
           /\ Range(emitted[i].indices) \subseteq TruePositions(attribute_combinations[i])
           /\ Distinct(attributes) =>
                  Range(emitted[i].indices) = TruePositions(attribute_combinations[i])
    /\ Combinations(4, 3) = <<<<1, 2, 3>>, <<1, 2, 4>>, <<1, 3, 4>>, <<2, 3, 4>>>>

\* render_query has returned three combinations of one size in a row, with
\* skipped groupings of that size before, between and after them.
C9_Witness ==
    /\ entry = "render_query"
    /\ pc = "done"
    /\ \E i \in DOMAIN emitted :
           /\ i + 2 \in DOMAIN emitted
           /\ emitted[i].subset_size = emitted[i + 2].subset_size
           /\ emitted[i].indices # FirstIndices(emitted[i].subset_size)
           /\ Len(Combinations(Len(attributes), emitted[i].subset_size)) > 4

\* C10: a run of main for --ping-type telemetry --histogram ends in
\* ValueError with render_query never called, no combination enumerated,
\* nothing rendered and nothing printed.
C10_ConfigurationErrorFirst ==
    (prog = "probe_counts" /\ entry = "main"
        /\ args.ping_type = "telemetry" /\ args.histogram) =>
        /\ calls = <<>>
        /\ attribute_combinations = <<>>
        /\ emitted = <<>>
        /\ rendered = <<>>
        /\ stdout = <<>>
        /\ pc \in {"main", "exit"}
        /\ pc = "exit" => (raised = "ValueError" /\ exit_code # 0)

\* main has raised ValueError for --ping-type telemetry --histogram.
C10_Witness ==
    /\ prog = "probe_counts"
    /\ entry = "main"
    /\ args.ping_type = "telemetry"
    /\ args.histogram
    /\ pc = "exit"
    /\ raised = "ValueError"

(***************************************************************************)
(* Properties of clients_daily_histogram_aggregates                        *)
(***************************************************************************)

Histogram == prog = "clients_daily_histogram_aggregates"

\* get_distribution_metrics has been called by main and is over.
Discovered == Histogram /\ entry = "main" /\ pc # "main"

\* A top-level "metrics" field, or a metric-type field under one, has no
\* "fields" entry.
MissingChildren(sch) ==
    \E r \in DOMAIN sch :
        /\ sch[r].name = "metrics"
        /\ \/ "fields" \notin DOMAIN sch[r]
           \/ \E m \in DOMAIN sch[r].fields :
                  /\ sch[r].fields[m].name \in metric_type_set
                  /\ "fields" \notin DOMAIN sch[r].fields[m]

\* C4, as claimed: on a schema with such a field get_distribution_metrics
\* still returns, without an error.
C4_ToleratesMissingChildren ==
    (Discovered /\ MissingChildren(schema)) =>
        /\ raised = "none"
        /\ DictKeys(distributions) = metric_type_set

RECURSIVE Flatten(_)
Flatten(ss) == IF Len(ss) = 0 THEN <<>> ELSE Head(ss) \o Flatten(Tail(ss))

\* The names of the children of the fields called t under the top-level
\* fields called "metrics", in schema order.
NamesUnder(sch, t) ==
    Flatten([r \in DOMAIN sch |->
        IF sch[r].name # "metrics" THEN <<>>
        ELSE Flatten([m \in DOMAIN sch[r].fields |->
                 IF sch[r].fields[m].name # t THEN <<>>
                 ELSE [k \in DOMAIN sch[r].fields[m].fields |->
                          sch[r].fields[m].fields[k].name]])])

\* C5: what get_distribution_metrics returns holds, for each metric type,
\* exactly the names of the children of the fields of that type under
\* "metrics", in schema order.
C5_ExactlyTheNamesInSchemaOrder ==
    (Discovered /\ raised = "none") =>
        /\ DictKeys(distributions) = metric_type_set
        /\ \A t \in metric_type_set :
               DictGet(distributions, t) = NamesUnder(schema, t)

\* Two names under one type, returned in schema order, which is not sorted.
C5_Witness ==
    /\ Discovered
    /\ raised = "none"
    /\ DictGet(distributions, "timing_distribution") = <<"ab", "a">>

\* C6: for a schema with no top-level "metrics" field, get_distribution_metrics
\* returns, without an error, a dict with every metric type as a key and
\* every value empty.
C6_NoRootFieldAllEmpty ==
    (Discovered /\ \A r \in DOMAIN schema : schema[r].name # "metrics") =>
        /\ raised = "none"
        /\ DictKeys(distributions) = metric_type_set
        /\ Len(distributions) = Cardinality(metric_type_set)
        /\ \A i \in DOMAIN distributions : distributions[i][2] = <<>>

\* get_distribution_metrics has returned for a schema whose only top-level
\* field is not "metrics" and has a metric-type child with a name under it.
C6_Witness ==
    /\ Discovered
    /\ Len(schema) = 1
    /\ schema[1].name # "metrics"
    /\ "fields" \in DOMAIN schema[1]
    /\ \E m \in DOMAIN schema[1].fields :
           /\ schema[1].fields[m].name \in metric_type_set
           /\ "fields" \in DOMAIN schema[1].fields[m]
           /\ Len(schema[1].fields[m].fields) > 0

\* The rows of a fragment, in order.
IsRow(token) == token.kind = "row"
Rows(str) == SelectSeq(str, IsRow)

\* (name, type) of one row is lexicographically <= that of another
PairLeq(x, y) ==
    \/ CharsLess(Chars(x.name), Chars(y.name))
    \/ /\ x.name = y.name
       /\ \/ x.metric_type = y.metric_type
          \/ CharsLess(Chars(x.metric_type), Chars(y.metric_type))

\* C7: the rows of the fragment get_metrics_sql returns are in
\* non-decreasing order of (name, type).
C7_FragmentSorted ==
    \A i, j \in DOMAIN Rows(metrics_sql) :
        i < j => PairLeq(Rows(metrics_sql)[i], Rows(metrics_sql)[j])

\* get_metrics_sql has returned for a catalog that is not in sorted order and
\* has one name under two types.
C7_Witness ==
    /\ Histogram
    /\ entry = "get_metrics_sql"
    /\ pc = "done"
    /\ Len(Rows(metrics_sql)) >= 3
    /\ \E i \in DOMAIN Rows(metrics_sql) :
           /\ i + 1 \in DOMAIN Rows(metrics_sql)
           /\ Rows(metrics_sql)[i].name = Rows(metrics_sql)[i + 1].name
    /\ \E i \in 1..(Len(Items(distributions, 1)) - 1) :
           ItemLess(Items(distributions, 1)[i + 1], Items(distributions, 1)[i])

EmptyQueryOutput == <<"header", "-- Empty query: no probes found!">>

\* C8: a catalog without names gives the empty string, on which main prints
\* the header and the diagnostic and exits non-zero with render_main not
\* called; render_main is only ever called with a non-empty fragment.
C8_EmptyFragmentNeverRendered ==
    Histogram =>
        /\ \A i \in DOMAIN calls :
               calls[i].fn = "render_main" => Len(calls[i].arg) > 0
        /\ (pc \in {"branch", "exit", "done"} /\ raised = "none"
                /\ Len(Items(distributions, 1)) = 0) =>
               /\ metrics_sql = <<>>
               /\ calls = <<>>
               /\ entry = "main" => pc \in {"branch", "exit"}
               /\ pc = "exit" => (stdout = EmptyQueryOutput /\ exit_code = 1)

\* main has found no names under the metric types of a schema that has a
\* "metrics" field, and exited.
C8_Witness ==
    /\ Histogram
    /\ entry = "main"
    /\ pc = "exit"
    /\ raised = "none"
    /\ \E r \in DOMAIN schema : schema[r].name = "metrics"
    /\ stdout = EmptyQueryOutput
    /\ exit_code = 1

\* main has printed a query rendered from a fragment of two rows.
C8_WitnessRendered ==
    /\ Histogram
    /\ pc = "done"
    /\ Len(calls) = 1
    /\ Len(Rows(calls[1].arg)) = 2

====
